---- MODULE Spec2Model ----
(***************************************************************************)
(* kubefwd: the local address allocator (package fwdnet, Allocate) and the *)
(* service forwarding orchestrator (cmd/kubefwd/services: Cmd.Run,         *)
(* fwdServices, deleteIP, portSearch, mapToSelectorStr).                   *)
(*                                                                         *)
(* Addresses are modelled by their host number h, standing for the IPv4    *)
(* address 127.1.27.h; text (ip.String(), port strings, the output of      *)
(* `ip addr show`) is modelled as sequences of one-character strings.      *)
(***************************************************************************)
EXTENDS Integers, Sequences, FiniteSets, TLC

(* ------------------------------ bounds -------------------------------- *)

\* highest host number of an address range
MaxHost == 3
\* number of Allocate calls the allocator harness (SpecAlloc) makes
MaxCalls == 3
\* number of contexts given on the command line
NumContexts == 2
\* longest target port string of the port resolution (SpecResolve)
MaxName == 2
\* highest host number of the --network-range of a run
MaxRunHost == 2
\* services listed in one run, ports of one service, sessions of one run
MaxSvcs == 2
MaxPorts == 2
MaxSessions == 2
MaxConcCalls == 2

(* -------------------------- program constants ------------------------- *)

\* pinger.Count = 3
PingCount == 3

(* ------------------------------- text --------------------------------- *)

Digits == <<"0", "1", "2", "3", "4", "5", "6", "7", "8", "9">>

IsDigit(c) == \E i \in 1..10 : Digits[i] = c

DigitVal(c) == (CHOOSE i \in 1..10 : Digits[i] = c) - 1

\* strconv.Itoa / fmt.Sprint of a non-negative integer: its decimal digits
RECURSIVE Itoa(_)
Itoa(n) == IF n < 10 THEN <<Digits[n + 1]>>
           ELSE Append(Itoa(n \div 10), Digits[(n % 10) + 1])

RECURSIVE DigitsVal(_)
DigitsVal(s) == IF s = <<>> THEN 0
                ELSE 10 * DigitsVal(SubSeq(s, 1, Len(s) - 1)) + DigitVal(s[Len(s)])

\* strconv.Atoi: an optional sign followed by one or more decimal digits
AtoiOk(s) ==
    LET body == IF s # <<>> /\ s[1] \in {"+", "-"} THEN Tail(s) ELSE s
    IN  body # <<>> /\ \A i \in 1..Len(body) : IsDigit(body[i])

\* strings.Index(s, sub): the first position (from 0) of sub in s, or -1
StringsIndex(s, sub) ==
    LET hits == {i \in 0..(Len(s) - Len(sub)) : SubSeq(s, i + 1, i + Len(sub)) = sub}
    IN  IF hits = {} THEN -1 ELSE CHOOSE i \in hits : \A j \in hits : i <= j

\* net.IP.String() of the address with host number h: "127.1.27.h"
IPString(h) == <<"1", "2", "7", ".", "1", ".", "2", "7", ".">> \o Itoa(h)

(* ------------------------------ state --------------------------------- *)

VARIABLES
    build,         \* which Allocate of package fwdnet is compiled in
    allocated,     \* fwdnet.allocated: the keys of the map (every value is true)
    call,          \* the activation of Allocate, per caller
    returned,      \* history (SpecAlloc): the addresses the successful calls returned
    ncalls,        \* history (SpecAlloc): the number of calls that have returned
    probes,        \* history (SpecAlloc): the probes run so far, per address
    networkRange,  \* the --network-range flag
    pc,            \* position of the main goroutine (Cmd.Run / fwdServices)
    ctxi,          \* index into contexts (Run, line 180)
    nsi,           \* index into namespaces (Run, line 194)
    svcLeft,       \* items of services.Items still to visit
    svcNo,         \* number of services visited so far in this run
    svc,           \* the loop variable svc (its selector and its ports)
    pods,          \* pods.Items[0].Spec.Containers, <<>> when none was listed
    localIP,       \* localIP of the service being forwarded (0: none)
    porti,         \* index into svc.Spec.Ports
    port,          \* the loop variable port (its TargetPort)
    pfo,           \* the PortForwardOpts built last
    last,          \* history: why the visit of the last service ended
    sess,          \* the goroutines spawned at line 359, in spawn order
    wg,            \* the counter of the sync.WaitGroup
    mu,            \* the holder of the mutex mu (0: unlocked)
    ifc,           \* the addresses aliased on the network interface
    saved,         \* number of calls of hostFile.Save
    exitCode       \* -1 while the process runs, else its exit code

allocVars == <<build, allocated, call, returned, ncalls, probes>>
runVars   == <<networkRange, pc, ctxi, nsi, svcLeft, svcNo, svc, pods, localIP,
               porti, port, pfo, last, sess, wg, mu, ifc, saved, exitCode>>
vars      == <<build, allocated, call, returned, ncalls, probes, networkRange, pc, ctxi,
               nsi, svcLeft, svcNo, svc, pods, localIP, porti, port, pfo, last,
               sess, wg, mu, ifc, saved, exitCode>>

(* --------------------------- fwdnet.Allocate -------------------------- *)

\* the two Allocate functions of package fwdnet: the one probing with go-ping
\* and the one probing with the ping command
Builds == {"goping", "execping"}

\* the goroutines that can be inside Allocate: the orchestrator, the only
\* caller in this program, and a second goroutine of a program that calls the
\* exported function concurrently
Callers == {"main", "other"}

Hosts == 1..MaxHost

\* a range specification: a well-formed one denotes hosts lo..hi, a malformed
\* one makes util.ParseIPRange fail
BadRange == [ok |-> FALSE, lo |-> 0, hi |-> 0]

RangeSpecs ==
    {r \in [ok : {TRUE}, lo : Hosts, hi : Hosts] : r.lo <= r.hi} \cup {BadRange}

\* what the ping command can print: echo replies, "Destination Host
\* Unreachable", only a packet-loss summary, or nothing (the command failed)
PingOutputs == {"replies", "unreachable", "timeout", "empty"}

\* what a probe of part_000 can report: the echo replies received
PingStats == [PacketsRecv : 0..PingCount]

NoStats == [PacketsRecv |-> -1]

NoRet == [ip |-> 0, err |-> "none"]

IdleCall == [pc |-> "idle", lo |-> 0, hi |-> 0, next |-> 0, ip |-> 0,
             before |-> {}, log |-> <<>>, ret |-> NoRet]

\* util.ParseIPRange
ParseIPRange(r) == [err |-> ~r.ok, lo |-> r.lo, hi |-> r.hi]

\* util.NewAllocator(ipr), ipAllocator.Remaining() and ipAllocator.Allocate():
\* the allocator hands out the addresses of the range in ascending order
Remaining(f) == f.hi - f.next + 1

\* line 25: if ipAllocator.Remaining() == 0 { break }
RangeExhausted_EarlyBreak(f) == Remaining(f) <= 1
RangeExhausted(f) == Remaining(f) = 0

\* line 30: _, ok := allocated[ip.String()]
IsAllocated_Never(tbl, ip) == FALSE
IsAllocated(tbl, ip) == ip \in tbl

\* line 34: allocated[ip.String()] = true
MarkAllocated_Dropped(tbl, ip) == tbl
MarkAllocated_Only(tbl, ip) == {ip}
MarkAllocated(tbl, ip) == tbl \cup {ip}

\* line 45: stats.PacketsRecv == 3
Alive_AnyReply(stats) == stats.PacketsRecv >= 1
Alive_Never(stats) == FALSE
Alive(stats) == stats.PacketsRecv = PingCount

\* part_001 line 38: strings.Contains(string(out), "Destination Host Unreachable")
HostUnreachable(out) == out = "unreachable"

\* the call Allocate(r) by caller c: lines 16-23
AllocEnter(c, r) ==
    LET ipr == ParseIPRange(r)
    IN  call' = [call EXCEPT ![c] =
            IF ipr.err
            THEN [IdleCall EXCEPT !.pc = "done", !.before = allocated,
                                  !.ret = [ip |-> 0, err |-> "parse"]]
            ELSE [IdleCall EXCEPT !.pc = "loop", !.lo = ipr.lo, !.hi = ipr.hi,
                                  !.next = ipr.lo, !.before = allocated]]

\* lines 25-27 and 53: the range is used up
AllocExhausted(c) ==
    /\ call[c].pc = "loop"
    /\ RangeExhausted(call[c])
    /\ call' = [call EXCEPT ![c].pc = "done",
                            ![c].ret = [ip |-> 0, err |-> "exhausted"]]
    /\ UNCHANGED <<build, allocated, returned, ncalls, probes>>
    /\ UNCHANGED runVars

\* line 29: ip = ipAllocator.Allocate()
AllocNext(c) ==
    /\ call[c].pc = "loop"
    /\ ~RangeExhausted(call[c])
    /\ call' = [call EXCEPT ![c].pc = "check", ![c].ip = call[c].next,
                            ![c].next = call[c].next + 1]
    /\ UNCHANGED <<build, allocated, returned, ncalls, probes>>
    /\ UNCHANGED runVars

\* lines 30-32: the candidate is in the table: continue
AllocSkip(c) ==
    /\ call[c].pc = "check"
    /\ IsAllocated(allocated, call[c].ip)
    /\ call' = [call EXCEPT ![c].pc = "loop"]
    /\ UNCHANGED <<build, allocated, returned, ncalls, probes>>
    /\ UNCHANGED runVars

\* line 30: the candidate is not in the table
AllocCheckFree_Unchecked(c) ==
    /\ call[c].pc = "check"
    /\ call' = [call EXCEPT ![c].pc = "claim"]
    /\ UNCHANGED <<build, allocated, returned, ncalls, probes>>
    /\ UNCHANGED runVars
AllocCheckFree(c) ==
    /\ call[c].pc = "check"
    /\ ~IsAllocated(allocated, call[c].ip)
    /\ call' = [call EXCEPT ![c].pc = "claim"]
    /\ UNCHANGED <<build, allocated, returned, ncalls, probes>>
    /\ UNCHANGED runVars

\* line 34: the candidate is entered in the table
AllocClaim(c) ==
    /\ call[c].pc = "claim"
    /\ allocated' = MarkAllocated(allocated, call[c].ip)
    /\ call' = [call EXCEPT ![c].pc = "probe"]
    /\ UNCHANGED <<build, returned, ncalls, probes>>
    /\ UNCHANGED runVars

\* part_000 lines 36-50: three echo requests; all answered: continue, else
\* return the candidate. A pinger that cannot send or receive reports 0.
AllocProbePing(c) ==
    /\ build = "goping"
    /\ call[c].pc = "probe"
    /\ \E stats \in PingStats :
         LET entry == [ip |-> call[c].ip, stats |-> stats, out |-> "none"]
         IN  call' = [call EXCEPT
                 ![c].log = Append(call[c].log, entry),
                 ![c].pc  = IF Alive(stats) THEN "loop" ELSE "done",
                 ![c].ret = IF Alive(stats) THEN NoRet
                            ELSE [ip |-> call[c].ip, err |-> "nil"]]
    /\ probes' = [probes EXCEPT ![call[c].ip] = @ + 1]
    /\ UNCHANGED <<build, allocated, returned, ncalls>>
    /\ UNCHANGED runVars

\* part_001 lines 37-40: the ping command; its error is dropped, and the
\* candidate is returned when the output reports the host unreachable
AllocProbeExec(c) ==
    /\ build = "execping"
    /\ call[c].pc = "probe"
    /\ \E out \in PingOutputs :
         LET entry == [ip |-> call[c].ip, stats |-> NoStats, out |-> out]
         IN  call' = [call EXCEPT
                 ![c].log = Append(call[c].log, entry),
                 ![c].pc  = IF HostUnreachable(out) THEN "done" ELSE "loop",
                 ![c].ret = IF HostUnreachable(out)
                            THEN [ip |-> call[c].ip, err |-> "nil"]
                            ELSE NoRet]
    /\ probes' = [probes EXCEPT ![call[c].ip] = @ + 1]
    /\ UNCHANGED <<build, allocated, returned, ncalls>>
    /\ UNCHANGED runVars

\* the caller takes the result: the activation ends
AllocLeave(c) ==
    /\ call' = [call EXCEPT ![c] = IdleCall]
    /\ returned' = IF call[c].ret.err = "nil"
                   THEN Append(returned, call[c].ret.ip) ELSE returned
    /\ ncalls' = ncalls + 1

\* lines 24-53 of part_000, run from candidate `next` to the return statement
\* with no other goroutine touching the table: the results the call can have,
\* over all the reports of its probes, each with the table it leaves
RECURSIVE AllocateFrom(_, _, _)
AllocateFrom(next, hi, tbl) ==
    IF RangeExhausted([hi |-> hi, next |-> next])
    THEN {[ip |-> 0, err |-> "exhausted", tbl |-> tbl]}
    ELSE IF IsAllocated(tbl, next)
         THEN AllocateFrom(next + 1, hi, tbl)
         ELSE UNION { IF Alive(stats)
                      THEN AllocateFrom(next + 1, hi, MarkAllocated(tbl, next))
                      ELSE {[ip |-> next, err |-> "nil", tbl |-> MarkAllocated(tbl, next)]}
                      : stats \in PingStats }

\* Allocate(iprange) of part_000, lines 15-54, run to completion
Allocate(r, tbl) ==
    LET ipr == ParseIPRange(r)
    IN  IF ipr.err THEN {[ip |-> 0, err |-> "parse", tbl |-> tbl]}
        ELSE AllocateFrom(ipr.lo, ipr.hi, tbl)

(* ------------- the allocator alone: sequential Allocate calls --------- *)

RunIdle ==
    /\ networkRange = BadRange
    /\ pc = "off"
    /\ ctxi = 0 /\ nsi = 0 /\ svcLeft = 0 /\ svcNo = 0
    /\ svc = [Selector |-> {}, NumPorts |-> 0]
    /\ pods = [n |-> 0, containers |-> <<>>]
    /\ localIP = 0 /\ porti = 0
    /\ port = [Type |-> "Int", IntVal |-> 0, StrVal |-> <<>>]
    /\ pfo = [PodPort |-> <<"-">>, set |-> FALSE]
    /\ last = "none"
    /\ sess = <<>>
    /\ wg = 0 /\ mu = 0
    /\ ifc = {}
    /\ saved = 0
    /\ exitCode = -1

AllocInit ==
    /\ build \in Builds
    /\ allocated = {}
    /\ call = [c \in Callers |-> IdleCall]
    /\ returned = <<>>
    /\ ncalls = 0
    /\ probes = [h \in Hosts |-> 0]

InitAlloc == AllocInit /\ RunIdle

\* a caller of the package calls Allocate with some range specification
HarnessCall ==
    /\ call["main"].pc = "idle"
    /\ ncalls < MaxCalls
    /\ \E r \in RangeSpecs : AllocEnter("main", r)
    /\ UNCHANGED <<build, allocated, returned, ncalls, probes>>
    /\ UNCHANGED runVars

HarnessReturn ==
    /\ call["main"].pc = "done"
    /\ AllocLeave("main")
    /\ UNCHANGED <<build, allocated, probes>>
    /\ UNCHANGED runVars

NextAlloc ==
    \/ HarnessCall
    \/ HarnessReturn
    \/ \E c \in Callers : AllocExhausted(c)
    \/ \E c \in Callers : AllocNext(c)
    \/ \E c \in Callers : AllocSkip(c)
    \/ \E c \in Callers : AllocCheckFree(c)
    \/ \E c \in Callers : AllocClaim(c)
    \/ \E c \in Callers : AllocProbePing(c)
    \/ \E c \in Callers : AllocProbeExec(c)

SpecAlloc == InitAlloc /\ [][NextAlloc]_vars

(* ------------------ Allocate called from two goroutines ---------------- *)

\* the process has not ended
Running == exitCode = -1

\* the ranges concurrent callers pass
ConcRanges == RangeSpecs

\* the callers inside Allocate
Active == {c \in Callers : call[c].pc # "idle"}

\* a goroutine calls Allocate, whether or not another one is inside it
ConcCall(c) ==
    /\ Running
    /\ call[c].pc = "idle"
    /\ ncalls + Cardinality(Active) < MaxConcCalls
    /\ \E r \in ConcRanges : AllocEnter(c, r)
    /\ UNCHANGED <<build, allocated, returned, ncalls, probes>>
    /\ UNCHANGED runVars

ConcReturn(c) ==
    /\ Running
    /\ call[c].pc = "done"
    /\ AllocLeave(c)
    /\ UNCHANGED <<build, allocated, probes>>
    /\ UNCHANGED runVars

\* the map `allocated` is read (line 30) and written (line 34) with no lock:
\* a write that is due while another goroutine is due to read or write the
\* map is a data race
MapRace(c) ==
    /\ call[c].pc = "claim"
    /\ \E d \in Callers \ {c} : call[d].pc \in {"check", "claim"}

\* one outcome of the race: the runtime detects it and throws ("fatal error:
\* concurrent map writes", exit status 2); the process is gone
ConcMapThrow(c) ==
    /\ Running
    /\ MapRace(c)
    /\ exitCode' = 2
    /\ call' = [d \in Callers |-> IdleCall]
    /\ allocated' = {}
    /\ returned' = <<>>
    /\ UNCHANGED <<build, ncalls, probes>>
    /\ UNCHANGED <<networkRange, pc, ctxi, nsi, svcLeft, svcNo, svc, pods, localIP,
                   porti, port, pfo, last, sess, wg, mu, ifc, saved>>

\* another outcome: the write of one of two racing writers is lost
ConcMapLostWrite(c) ==
    /\ Running
    /\ MapRace(c)
    /\ \E d \in Callers \ {c} : call[d].pc = "claim"
    /\ call' = [call EXCEPT ![c].pc = "probe"]
    /\ UNCHANGED <<build, allocated, returned, ncalls, probes>>
    /\ UNCHANGED runVars

\* the remaining outcomes: the two accesses take effect in one order or the
\* other, which are the steps of Allocate interleaved
NextConc ==
    \/ \E c \in Callers : ConcCall(c)
    \/ \E c \in Callers : ConcReturn(c)
    \/ \E c \in Callers : ConcMapThrow(c)
    \/ \E c \in Callers : ConcMapLostWrite(c)
    \/ Running /\ \E c \in Callers : AllocExhausted(c)
    \/ Running /\ \E c \in Callers : AllocNext(c)
    \/ Running /\ \E c \in Callers : AllocSkip(c)
    \/ Running /\ \E c \in Callers : AllocCheckFree(c)
    \/ Running /\ \E c \in Callers : AllocClaim(c)
    \/ Running /\ \E c \in Callers : AllocProbePing(c)
    \/ Running /\ \E c \in Callers : AllocProbeExec(c)

SpecConc == InitAlloc /\ [][NextConc]_vars

(* ------------------ cmd/kubefwd/services: the data --------------------- *)

Min(a, b) == IF a < b THEN a ELSE b

\* svc.Spec.Selector: a map from label key to value, as a set of pairs
Selectors == { {}, {<<"app", "foo">>, <<"tier", "web">>} }

\* mapToSelectorStr: "k=v" for every entry, joined with ","
RECURSIVE mapToSelectorStr(_)
mapToSelectorStr(msel) ==
    IF msel = {} THEN <<>>
    ELSE LET e    == CHOOSE x \in msel : TRUE
             rest == mapToSelectorStr(msel \ {e})
         IN  (IF rest # <<>> THEN rest \o <<",">> ELSE <<>>) \o <<e[1], "=", e[2]>>

\* line 262: if selector == ""
SelectorEmpty_Never(selector) == FALSE
SelectorEmpty(selector) == selector = <<>>

\* the characters of port names and target port strings
Chars == {"8", "0", "h", "w", "-"}

RECURSIVE Strings(_)
Strings(n) == IF n = 0 THEN {<<>>}
              ELSE LET shorter == Strings(n - 1)
                   IN  shorter \cup {Append(t, c) : t \in shorter, c \in Chars}

\* pods.Items[0].Spec.Containers: per container its port declarations
ContainerSets ==
    { << <<[Name |-> <<"h">>, ContainerPort |-> 8080]>> >>,
      << <<[Name |-> <<"w">>, ContainerPort |-> 90]>>,
         <<[Name |-> <<>>, ContainerPort |-> 7],
           [Name |-> <<"h">>, ContainerPort |-> 81],
           [Name |-> <<"h">>, ContainerPort |-> 82]>> >>,
      << <<>>, <<[Name |-> <<"8", "0">>, ContainerPort |-> 1],
                 [Name |-> <<"h", "w">>, ContainerPort |-> 0]>>,
         <<[Name |-> <<"h", "w">>, ContainerPort |-> 443]>> >> }

\* the result of listing the pods of a selector: no item, or items of which
\* only the first is read
NoPodList == [n |-> 0, containers |-> <<>>]
PodLists == {NoPodList} \cup {[n |-> 1, containers |-> cs] : cs \in ContainerSets}

\* the pod lists of a run: the run reads len(pods.Items) only, the containers
\* are read by the resolution of the pod port (ResolvePort)
RunPodLists == {pl \in PodLists : pl.n > 0 => pl.containers = <<<<[Name |-> <<"h">>, ContainerPort |-> 8080]>>>>}

\* line 275: if len(pods.Items) < 1
NoPods(pl) == pl.n < 1

\* port.TargetPort, an intstr.IntOrString
IntPort(n) == [Type |-> "Int", IntVal |-> n, StrVal |-> <<>>]
StrPort(s) == [Type |-> "String", IntVal |-> 0, StrVal |-> s]

TargetPorts == {IntPort(n) : n \in {0, 80, 9090}} \cup {StrPort(t) : t \in Strings(MaxName)}

\* intstr.IntOrString.String()
TargetPortString(tp) == IF tp.Type = "Int" THEN Itoa(tp.IntVal) ELSE tp.StrVal

NotFound == [port |-> <<>>, ok |-> FALSE]

\* portSearch, the inner loop: the ports of one container
RECURSIVE portSearchPorts(_, _)
portSearchPorts_Last(portName, ports) ==
    LET hits == {i \in 1..Len(ports) : ports[i].Name = portName}
    IN  IF hits = {} THEN NotFound
        ELSE [port |-> Itoa(ports[CHOOSE i \in hits : \A j \in hits : j <= i].ContainerPort),
              ok |-> TRUE]
portSearchPorts(portName, ports) ==
    IF ports = <<>> THEN NotFound
    ELSE IF Head(ports).Name = portName
         THEN [port |-> Itoa(Head(ports).ContainerPort), ok |-> TRUE]
         ELSE portSearchPorts(portName, Tail(ports))

\* portSearch, the outer loop: the containers
RECURSIVE portSearch(_, _)
portSearch(portName, containers) ==
    IF containers = <<>> THEN NotFound
    ELSE LET r == portSearchPorts(portName, Head(containers))
         IN  IF r.ok THEN r ELSE portSearch(portName, Tail(containers))

\* lines 298-306: podPort
PodPort(tp, containers) ==
    LET podPort == TargetPortString(tp)
    IN  IF ~AtoiOk(podPort)
        THEN LET r == portSearch(podPort, containers)
             IN  IF r.ok THEN r.port ELSE podPort
        ELSE podPort

NoPfo == [PodPort |-> <<"-">>, set |-> FALSE]

NoPort == IntPort(0)

\* the output of `ip addr show <iface>`: the interface's own address and one
\* inet line per alias
RECURSIVE AliasLines(_)
AliasLines(S) ==
    IF S = {} THEN <<>>
    ELSE LET a == CHOOSE x \in S : \A y \in S : x <= y
         IN  <<"i", "n", "e", "t", " ">> \o IPString(a) \o <<"/", "3", "2", "\n">>
                 \o AliasLines(S \ {a})

AddrShow(aliases) ==
    <<"i", "n", "e", "t", " ", "1", "2", "7", ".", "0", ".", "0", ".", "1", "/", "8", "\n">>
        \o AliasLines(aliases)

\* line 390: strings.Index(string(out), ip.String()) != -1
Listed(out, ip) == StringsIndex(out, IPString(ip)) # -1

\* line 218: wg.Wait() returns when the counter is zero
WaitReleased_Early(n) == n <= 1
WaitReleased(n) == n = 0

\* Run, line 154: no namespace was given
namespaces == <<"default">>

\* the --network-range flag: the range of hosts 1..MaxRunHost, or a malformed one
NetworkRanges == {r \in RangeSpecs : r.ok => r.lo = 1 /\ r.hi = MaxRunHost}

\* the aliases the interface carries when the run starts: none
InitialAliases == { {} }

(* ------------------ cmd/kubefwd/services: the run ---------------------- *)

loopVars == <<ctxi, nsi, svcLeft, svcNo, svc, pods, localIP, porti, port, pfo, last>>
goVars   == <<sess, wg, mu, ifc, saved>>

NoSvc == [Selector |-> {}, NumPorts |-> 0]

RunInit ==
    /\ networkRange \in NetworkRanges
    /\ pc = "ctx"
    /\ ctxi = 1 /\ nsi = 0 /\ svcLeft = 0 /\ svcNo = 0
    /\ svc = NoSvc
    /\ pods = NoPodList
    /\ localIP = 0 /\ porti = 0
    /\ port = NoPort
    /\ pfo = NoPfo
    /\ last = "none"
    /\ sess = <<>>
    /\ wg = 0 /\ mu = 0
    /\ ifc \in InitialAliases
    /\ saved = 0
    /\ exitCode = -1

\* the run of the program built with the go-ping Allocate
Init == AllocInit /\ build = "goping" /\ RunInit

\* os.Exit and log.Fatalf: the process is gone, and with it its goroutines,
\* its variables and its allocation table; the aliases on the interface
\* stay; `last` keeps why the process ended
Exit_Returns(code, why) ==
    /\ last' = why
    /\ UNCHANGED <<pc, exitCode, ctxi, nsi, svcLeft, svcNo, svc, pods, localIP, porti,
                   port, pfo, sess, wg, mu, allocated>>
    /\ UNCHANGED <<networkRange, ifc, build, call, returned, ncalls, probes>>
Exit(code, why) ==
    /\ pc' = "exit" /\ exitCode' = code
    /\ ctxi' = 0 /\ nsi' = 0 /\ svcLeft' = 0 /\ svcNo' = 0
    /\ svc' = NoSvc /\ pods' = NoPodList /\ localIP' = 0 /\ porti' = 0
    /\ port' = NoPort /\ pfo' = NoPfo
    /\ last' = why
    /\ sess' = <<>> /\ wg' = 0 /\ mu' = 0
    /\ allocated' = {}
    /\ UNCHANGED <<networkRange, ifc, build, call, returned, ncalls, probes>>

\* Run, lines 180-192: the REST configuration and the client of a context
RunContext ==
    /\ Running /\ pc = "ctx" /\ ctxi <= NumContexts
    /\ pc' = "ns" /\ nsi' = 1
    /\ last' = "none"
    /\ UNCHANGED <<networkRange, ctxi, svcLeft, svcNo, svc, pods, localIP, porti,
                   port, pfo, exitCode>>
    /\ UNCHANGED goVars /\ UNCHANGED allocVars

\* Run, lines 184-186 and 190-192: log.Fatalf
RunContextFatal ==
    /\ Running /\ pc = "ctx" /\ ctxi <= NumContexts
    /\ Exit(1, "ctxfatal")
    /\ UNCHANGED saved

\* Run, lines 194, 180 and 216: fwdServices has returned: on to the next
\* namespace, after the last namespace to the next context, after the last
\* context to wg.Wait()
NextNamespace ==
    IF nsi < Len(namespaces)
    THEN /\ nsi' = nsi + 1
         /\ ctxi' = ctxi
         /\ pc' = "ns"
    ELSE /\ nsi' = 0
         /\ ctxi' = ctxi + 1
         /\ pc' = IF ctxi < NumContexts THEN "ctx" ELSE "wait"

\* fwdServices, lines 259 and 373: the loop goes to the next service, or,
\* with no service left, fwdServices returns nil and Run goes on
NextService(left) ==
    IF left > 0
    THEN /\ pc' = "svc"
         /\ ctxi' = ctxi /\ nsi' = nsi
    ELSE NextNamespace

\* Run, line 195 and fwdServices, line 248: the services of the namespace
RunNamespace ==
    /\ Running /\ pc = "ns" /\ nsi <= Len(namespaces)
    /\ \E n \in 0..(MaxSvcs - svcNo) :
         /\ svcLeft' = n
         /\ NextService(n)
    /\ last' = "none"
    /\ UNCHANGED <<networkRange, svcNo, svc, pods, localIP, porti, port,
                   pfo, exitCode>>
    /\ UNCHANGED goVars /\ UNCHANGED allocVars

\* fwdServices, lines 249-251 and Run, lines 212-214: listing failed
RunNamespaceErr ==
    /\ Running /\ pc = "ns" /\ nsi <= Len(namespaces)
    /\ NextNamespace
    /\ last' = "svcerr"
    /\ UNCHANGED <<networkRange, svcLeft, svcNo, svc, pods, localIP, porti,
                   port, pfo, exitCode>>
    /\ UNCHANGED goVars /\ UNCHANGED allocVars

\* the services a namespace can list: NumPorts stands for len(svc.Spec.Ports)
Services ==
    {[Selector |-> sel, NumPorts |-> np] :
        sel \in Selectors, np \in 0..Min(MaxPorts, MaxSessions - Len(sess))}

\* a continue or break that ends the visit of a service: the variables of the
\* loop body go out of scope; `last` keeps why the visit ended until the
\* main goroutine's next step
NextSvc(why) ==
    /\ svcLeft' = svcLeft - 1
    /\ svcNo' = svcNo + 1
    /\ NextService(svcLeft - 1)
    /\ svc' = NoSvc /\ pods' = NoPodList /\ localIP' = 0 /\ porti' = 0
    /\ port' = NoPort /\ pfo' = NoPfo
    /\ last' = why

\* fwdServices, lines 259-265: the next service has no selector
FwdNoSelector ==
    /\ Running /\ pc = "svc" /\ svcLeft > 0
    /\ \E s \in Services : SelectorEmpty(mapToSelectorStr(s.Selector))
    /\ NextSvc("noselector")
    /\ UNCHANGED <<networkRange, exitCode>>
    /\ UNCHANGED goVars /\ UNCHANGED allocVars

\* fwdServices, lines 259-273: listing the pods of the next service failed
FwdListPodsErr ==
    /\ Running /\ pc = "svc" /\ svcLeft > 0
    /\ \E s \in Services : ~SelectorEmpty(mapToSelectorStr(s.Selector))
    /\ NextSvc("podserr")
    /\ UNCHANGED <<networkRange, exitCode>>
    /\ UNCHANGED goVars /\ UNCHANGED allocVars

\* fwdServices, lines 259-279: the selector of the next service matches no pod
FwdNoPods ==
    /\ Running /\ pc = "svc" /\ svcLeft > 0
    /\ \E s \in Services, pl \in RunPodLists :
         /\ ~SelectorEmpty(mapToSelectorStr(s.Selector))
         /\ NoPods(pl)
    /\ NextSvc("nopods")
    /\ UNCHANGED <<networkRange, exitCode>>
    /\ UNCHANGED goVars /\ UNCHANGED allocVars

\* a service and the pods listed for it that pass lines 259-279
Forwardable(s, pl) ==
    /\ ~SelectorEmpty(mapToSelectorStr(s.Selector))
    /\ ~NoPods(pl)

\* line 281: fwdnet.Allocate(opts.NetworkRange)
AllocResults == Allocate(networkRange, allocated)

\* fwdServices, lines 259-285: the next service has pods, Allocate fails
FwdAllocFail_Fatal ==
    /\ Running /\ pc = "svc" /\ svcLeft > 0
    /\ \E s \in Services, pl \in RunPodLists : Forwardable(s, pl)
    /\ \E r \in AllocResults : r.err # "nil"
    /\ Exit(1, "allocfail")
    /\ UNCHANGED saved
FwdAllocFail ==
    /\ Running /\ pc = "svc" /\ svcLeft > 0
    /\ \E s \in Services, pl \in RunPodLists : Forwardable(s, pl)
    /\ \E r \in AllocResults :
         /\ r.err # "nil"
         /\ allocated' = r.tbl
    /\ NextSvc("allocfail")
    /\ UNCHANGED <<build, call, returned, ncalls, probes>>
    /\ UNCHANGED <<networkRange, exitCode>>
    /\ UNCHANGED goVars

\* fwdServices, lines 259-293: the next service has pods, Allocate returns
\* localIP and `ip addr add` succeeds, which it can only for an address the
\* interface does not carry
FwdBind ==
    /\ Running /\ pc = "svc" /\ svcLeft > 0
    /\ \E s \in Services, pl \in RunPodLists :
         /\ Forwardable(s, pl)
         /\ svc' = s
         /\ pods' = pl
    /\ \E r \in AllocResults :
         /\ r.err = "nil"
         /\ allocated' = r.tbl
         /\ localIP' = r.ip
         /\ r.ip \notin ifc
         /\ ifc' = ifc \cup {r.ip}
    /\ svcNo' = svcNo + 1
    /\ porti' = 1
    /\ pc' = "ports"
    /\ last' = "none"
    /\ UNCHANGED <<build, call, returned, ncalls, probes>>
    /\ UNCHANGED <<networkRange, ctxi, nsi, svcLeft, port, pfo, exitCode>>
    /\ UNCHANGED <<sess, wg, mu, saved>>

\* fwdServices, lines 259-291: the next service has pods, Allocate returns
\* localIP and `ip addr add` fails: os.Exit(1), and the locals are gone
FwdBindFail ==
    /\ Running /\ pc = "svc" /\ svcLeft > 0
    /\ \E s \in Services, pl \in RunPodLists : Forwardable(s, pl)
    /\ \E r \in AllocResults : r.err = "nil"
    /\ Exit(1, "bindfail")
    /\ UNCHANGED saved

\* the visit of a service ends inside or after its port loop
EndSvc(why) ==
    /\ svcLeft' = svcLeft - 1
    /\ NextService(svcLeft - 1)
    /\ svc' = NoSvc /\ pods' = NoPodList /\ localIP' = 0 /\ porti' = 0
    /\ port' = NoPort /\ pfo' = NoPfo
    /\ last' = why

\* fwdServices, lines 295 and 370: the ports are used up
FwdPortsDone ==
    /\ Running /\ pc = "ports" /\ porti > svc.NumPorts
    /\ EndSvc("forwarded")
    /\ UNCHANGED <<networkRange, svcNo, exitCode>>
    /\ UNCHANGED goVars /\ UNCHANGED allocVars

\* the goroutine started at line 359
NewSession(no, ip) == [svc |-> no, ip |-> ip, st |-> "tunnel", hit |-> FALSE]

\* fwdServices, lines 295-369: one port: the pod was got, wg.Add(1) and the
\* goroutine. The pod port of lines 298-306 goes to fwdport.PortForward only
\* and is modelled by ResolvePort.
FwdPort ==
    /\ Running /\ pc = "ports" /\ porti <= svc.NumPorts
    /\ wg' = wg + 1
    /\ sess' = Append(sess, NewSession(svcNo, localIP))
    /\ porti' = porti + 1
    /\ UNCHANGED <<networkRange, pc, ctxi, nsi, svcLeft, svcNo, svc, pods, localIP,
                   port, pfo, last, exitCode>>
    /\ UNCHANGED <<mu, ifc, saved>> /\ UNCHANGED allocVars

\* fwdServices, lines 295-312: getting the pod failed: break
FwdPortGetErr ==
    /\ Running /\ pc = "ports" /\ porti <= svc.NumPorts
    /\ EndSvc("geterr")
    /\ UNCHANGED <<networkRange, svcNo, exitCode>>
    /\ UNCHANGED goVars /\ UNCHANGED allocVars

\* Run, line 218: wg.Wait()
RunWait ==
    /\ Running /\ pc = "wait"
    /\ WaitReleased(wg)
    /\ pc' = "save"
    /\ UNCHANGED <<networkRange, exitCode>> /\ UNCHANGED loopVars
    /\ UNCHANGED goVars /\ UNCHANGED allocVars

\* Run, lines 220-226: hostFile.Save() succeeded; Run returns
RunSave ==
    /\ Running /\ pc = "save"
    /\ saved' = saved + 1
    /\ pc' = "done" /\ exitCode' = 0
    /\ UNCHANGED networkRange /\ UNCHANGED loopVars
    /\ UNCHANGED <<sess, wg, mu, ifc>> /\ UNCHANGED allocVars

\* Run, lines 222-225: hostFile.Save() failed: log.Fatalf
RunSaveFatal ==
    /\ Running /\ pc = "save"
    /\ saved' = saved + 1
    /\ Exit(1, "savefatal")

\* fwdport.PortForward returns, lines 360-365: the tunnel has ended, with an
\* error (logged) or without one
PortForwardReturns(i) ==
    /\ Running /\ sess[i].st = "tunnel"
    /\ \E err \in BOOLEAN : sess' = [sess EXCEPT ![i].st = "stopped"]
    /\ UNCHANGED <<networkRange, pc, exitCode>> /\ UNCHANGED loopVars
    /\ UNCHANGED <<wg, mu, ifc, saved>> /\ UNCHANGED allocVars

\* line 381: mu.Lock() returns when no goroutine holds the mutex
Unlocked_Always(m) == TRUE
Unlocked(m) == m = 0

\* deleteIP, lines 381-390: lock mu, list the addresses of the interface and
\* look for the address in the listing; a failed listing shows no address
DeleteIPList(i) ==
    /\ Running /\ sess[i].st = "stopped"
    /\ Unlocked(mu)
    /\ mu' = i
    /\ \E listed \in BOOLEAN :
         LET out == IF listed THEN AddrShow(ifc) ELSE <<>>
         IN  sess' = [sess EXCEPT ![i].st = "listed",
                                  ![i].hit = Listed(out, sess[i].ip)]
    /\ UNCHANGED <<networkRange, pc, exitCode>> /\ UNCHANGED loopVars
    /\ UNCHANGED <<wg, ifc, saved>> /\ UNCHANGED allocVars

\* deleteIP, lines 390-396: the address was listed: `ip addr del`, which can
\* only succeed for an address the interface carries; unlock mu
DeleteIPDel(i) ==
    /\ Running /\ sess[i].st = "listed" /\ mu = i
    /\ sess[i].hit
    /\ \/ sess[i].ip \in ifc /\ ifc' = ifc \ {sess[i].ip}
       \/ ifc' = ifc
    /\ mu' = 0
    /\ sess' = [sess EXCEPT ![i].st = "released"]
    /\ UNCHANGED <<networkRange, pc, exitCode>> /\ UNCHANGED loopVars
    /\ UNCHANGED <<wg, saved>> /\ UNCHANGED allocVars

\* deleteIP, lines 390 and 396: the address was not listed; unlock mu
DeleteIPSkip_KeepsLock(i) ==
    /\ Running /\ sess[i].st = "listed" /\ mu = i
    /\ ~sess[i].hit
    /\ sess' = [sess EXCEPT ![i].st = "released"]
    /\ UNCHANGED <<networkRange, pc, exitCode>> /\ UNCHANGED loopVars
    /\ UNCHANGED <<wg, mu, ifc, saved>> /\ UNCHANGED allocVars
DeleteIPSkip(i) ==
    /\ Running /\ sess[i].st = "listed" /\ mu = i
    /\ ~sess[i].hit
    /\ mu' = 0
    /\ sess' = [sess EXCEPT ![i].st = "released"]
    /\ UNCHANGED <<networkRange, pc, exitCode>> /\ UNCHANGED loopVars
    /\ UNCHANGED <<wg, ifc, saved>> /\ UNCHANGED allocVars

\* a goroutine that has ended: its variables are gone
EndedSession == [svc |-> 0, ip |-> 0, st |-> "done", hit |-> FALSE]

\* line 368: opts.Wg.Done(), and the goroutine ends
WgDone(i) ==
    /\ Running /\ sess[i].st = "released"
    /\ wg' = wg - 1
    /\ sess' = [sess EXCEPT ![i] = EndedSession]
    /\ UNCHANGED <<networkRange, pc, exitCode>> /\ UNCHANGED loopVars
    /\ UNCHANGED <<mu, ifc, saved>> /\ UNCHANGED allocVars

Next ==
    \/ RunContext
    \/ RunContextFatal
    \/ RunNamespace
    \/ RunNamespaceErr
    \/ FwdNoSelector
    \/ FwdListPodsErr
    \/ FwdNoPods
    \/ FwdAllocFail
    \/ FwdBind
    \/ FwdBindFail
    \/ FwdPortsDone
    \/ FwdPort
    \/ FwdPortGetErr
    \/ RunWait
    \/ RunSave
    \/ RunSaveFatal
    \/ \E i \in 1..Len(sess) : PortForwardReturns(i)
    \/ \E i \in 1..Len(sess) : DeleteIPList(i)
    \/ \E i \in 1..Len(sess) : DeleteIPDel(i)
    \/ \E i \in 1..Len(sess) : DeleteIPSkip(i)
    \/ \E i \in 1..Len(sess) : WgDone(i)

Spec == Init /\ [][Next]_vars

\* the steps of the main goroutine
MainNext ==
    \/ RunContext \/ RunContextFatal \/ RunNamespace \/ RunNamespaceErr
    \/ FwdNoSelector \/ FwdListPodsErr \/ FwdNoPods
    \/ FwdAllocFail \/ FwdBind \/ FwdBindFail
    \/ FwdPortsDone \/ FwdPort \/ FwdPortGetErr
    \/ RunWait \/ RunSave \/ RunSaveFatal

\* the steps of the i-th goroutine spawned at line 359
GoNext(i) ==
    /\ i \in 1..Len(sess)
    /\ \/ PortForwardReturns(i)
       \/ DeleteIPList(i)
       \/ DeleteIPDel(i)
       \/ DeleteIPSkip(i)
       \/ WgDone(i)

\* the run under a fair scheduler: a goroutine that can take a step takes
\* one (the main goroutine's calls return, sync.Mutex hands the lock to a
\* waiting goroutine), and every fwdport.PortForward call returns
SpecLive ==
    /\ Init /\ [][Next]_vars
    /\ WF_vars(MainNext)
    /\ \A i \in 1..MaxSessions : WF_vars(GoNext(i))

(* ------- the pod port of a service port (fwdServices, 295-306) -------- *)

\* the port loop reads a service port and the first pod of the service
InitResolve ==
    /\ AllocInit /\ build = "goping"
    /\ networkRange = BadRange
    /\ pc = "port"
    /\ ctxi = 0 /\ nsi = 0 /\ svcLeft = 0 /\ svcNo = 0
    /\ svc = NoSvc
    /\ pods \in PodLists /\ ~NoPods(pods)
    /\ localIP = 0 /\ porti = 0
    /\ port \in TargetPorts
    /\ pfo = NoPfo
    /\ last = "none"
    /\ sess = <<>>
    /\ wg = 0 /\ mu = 0
    /\ ifc = {}
    /\ saved = 0
    /\ exitCode = -1

\* lines 298-306 and 340-348: podPort and the PodPort of the options
ResolvePort ==
    /\ pc = "port"
    /\ pfo' = [PodPort |-> PodPort(port, pods.containers), set |-> TRUE]
    /\ pc' = "resolved"
    /\ UNCHANGED <<networkRange, ctxi, nsi, svcLeft, svcNo, svc, pods, localIP, porti,
                   port, last, exitCode>>
    /\ UNCHANGED goVars /\ UNCHANGED allocVars

NextResolve == ResolvePort

SpecResolve == InitResolve /\ [][NextResolve]_vars

(* ------------------- properties of Allocate (SpecAlloc) --------------- *)

\* the activations of Allocate that have reached their return statement
Returning == {c \in Callers : call[c].pc = "done"}

RangeOf(f) == f.lo..f.hi

\* the addresses an activation's probes found to answer every echo request
LiveIn(f) == {f.log[i].ip : i \in {j \in 1..Len(f.log) : f.log[j].stats.PacketsRecv = PingCount}}

\* the probe reported the address not live: fewer than PingCount echo replies
\* (go-ping), "Destination Host Unreachable" (ping command)
ReportedNotLive(e) ==
    IF build = "goping" THEN e.stats.PacketsRecv \in 0..(PingCount - 1)
    ELSE e.out = "unreachable"

NoneLive(f) == \A i \in 1..Len(f.log) : ReportedNotLive(f.log[i])

C2_NeverReturnsLive ==
    build = "goping" =>
        \A c \in Callers :
            LET f == call[c]
            IN  \A i \in 1..Len(f.log) :
                    f.log[i].stats.PacketsRecv = PingCount =>
                        /\ f.ret.ip # f.log[i].ip
                        /\ f.pc # "done" => f.next > f.log[i].ip
                        /\ f.pc = "done" =>
                              \/ f.ret.err = "exhausted"
                              \/ f.ret.err = "nil" /\ f.ret.ip > f.log[i].ip

\* host 1 answered all echo requests and the call returned host 2
C2_Witness ==
    /\ build = "goping"
    /\ call["main"].pc = "done"
    /\ Len(call["main"].log) = 2
    /\ call["main"].log[1] = [ip |-> 1, stats |-> [PacketsRecv |-> PingCount], out |-> "none"]
    /\ call["main"].ret = [ip |-> 2, err |-> "nil"]

\* C3: (go-ping Allocate) a successful call returns the first address of the
\* range, in range order, that was not in the table when the call began and
\* did not answer all echo requests; every address before it was in the
\* table or answered all of them; a candidate with no or only some replies
\* is returned at once.
C3_FirstFit ==
    build = "goping" =>
        \A c \in Callers :
            LET f == call[c]
            IN  /\ (f.pc = "done" /\ f.ret.err = "nil") =>
                      /\ f.ret.ip \in RangeOf(f)
                      /\ f.ret.ip \notin f.before
                      /\ f.ret.ip \notin LiveIn(f)
                      /\ \E i \in 1..Len(f.log) : f.log[i].ip = f.ret.ip
                      /\ \A a \in f.lo..(f.ret.ip - 1) :
                            a \in f.before \/ a \in LiveIn(f)
                /\ \A i \in 1..Len(f.log) :
                      f.log[i].stats.PacketsRecv < PingCount =>
                          /\ i = Len(f.log)
                          /\ f.pc = "done"
                          /\ f.ret = [ip |-> f.log[i].ip, err |-> "nil"]

\* range 1-3, hosts 1 and 2 live, host 3 answering one request: host 3 is returned
C3_Witness ==
    /\ build = "goping"
    /\ call["main"].pc = "done"
    /\ call["main"].lo = 1 /\ call["main"].hi = 3
    /\ call["main"].before = {}
    /\ LiveIn(call["main"]) = {1, 2}
    /\ call["main"].log[3].stats.PacketsRecv = 1
    /\ call["main"].ret = [ip |-> 3, err |-> "nil"]

\* C4: (go-ping Allocate) the call ends with the exhaustion error exactly
\* when every address of the range was in the table when the call began or
\* answered all echo requests; it then returns no address and has probed
\* every address of the range that was not in the table, so K probes on a
\* range of K unclaimed live addresses.
C4_Exhaustion ==
    build = "goping" =>
        \A c \in Returning :
            LET f == call[c]
            IN  f.ret.err # "parse" =>
                  /\ f.ret.err = "exhausted" <=>
                        \A a \in RangeOf(f) : a \in f.before \/ a \in LiveIn(f)
                  /\ f.ret.err = "exhausted" =>
                        /\ f.ret.ip = 0
                        /\ {f.log[i].ip : i \in 1..Len(f.log)} = RangeOf(f) \ f.before
                        /\ Len(f.log) = Cardinality(RangeOf(f) \ f.before)

\* all three addresses of range 1-3 are live: three probes, then the error
C4_Witness ==
    /\ build = "goping"
    /\ call["main"].pc = "done"
    /\ call["main"].lo = 1 /\ call["main"].hi = 3
    /\ call["main"].before = {}
    /\ Len(call["main"].log) = 3
    /\ LiveIn(call["main"]) = {1, 2, 3}
    /\ call["main"].ret = [ip |-> 0, err |-> "exhausted"]

(* --------------------- properties of the run (Spec) ------------------- *)

\* the sessions whose tunnel is running
Tunneling == {i \in 1..Len(sess) : sess[i].st = "tunnel"}

\* the sessions whose slot in the WaitGroup is not yet marked done
NotDone == {i \in 1..Len(sess) : sess[i].st # "done"}

C6_TeardownJoinSave ==
    /\ wg = Cardinality(NotDone)
    /\ \A i \in 1..Len(sess) : mu = i <=> sess[i].st = "listed"
    /\ mu \in 0..Len(sess)
    /\ saved <= 1
    /\ (pc \in {"save", "done"} \/ saved > 0) => NotDone = {}

\* Save was called after both sessions of the run went through their teardown
C6_Witness ==
    /\ saved = 1
    /\ Len(sess) = 2
    /\ \A i \in 1..Len(sess) : sess[i].st = "done"

\* C7, as stated: a session whose tunnel and whose deleteIP have returned
\* has executed the release of its address (once), and the address
\* of a session whose tunnel is still running is still bound.
C7_ReleasedExactlyOnce ==
    \A i \in 1..Len(sess) :
        /\ sess[i].st = "released" => sess[i].hit
        /\ sess[i].st = "tunnel" => sess[i].ip \in ifc

\* C8, as stated: the port loop of a service is left only when no port of the
\* service is left unvisited.
C8_ContinueOnError ==
    [][(pc = "ports" /\ pc' # "ports") => porti >= svc.NumPorts]_vars

\* C10: the visit of a service without selector, or whose selector matches no
\* pod, changes neither the allocation table nor the interface nor the
\* sessions nor the WaitGroup, and goes on with the next service without
\* ending the run; only a service with a selector and with pods gets an
\* address (and with it the port loop that spawns sessions).
C10_SkipWithoutPods ==
    [][/\ (pc = "svc" /\ svcLeft' = svcLeft - 1 /\ last' \in {"noselector", "nopods"}) =>
            /\ allocated' = allocated /\ ifc' = ifc
            /\ sess' = sess /\ wg' = wg
            /\ svcLeft' > 0 => pc' = "svc"
            /\ exitCode' = exitCode /\ pc' \in {"svc", "ctx", "ns", "wait"}
       /\ (pc = "svc" /\ pc' = "ports") =>
            /\ svc'.Selector # {} /\ pods'.n >= 1
            /\ localIP' \in allocated'
       /\ sess' # sess /\ Len(sess') > Len(sess) =>
            svc.Selector # {} /\ pods.n >= 1
      ]_vars

\* a service without selector was skipped and the loop is at the next service
C10_Witness ==
    /\ pc = "svc" /\ last = "noselector"
    /\ svcLeft > 0
    /\ Running

\* C11: a failed `ip addr add` ends the process at once with exit code 1:
\* the step that fails leads from the service loop straight to the exit,
\* before Save was called and without adding the alias, and no step of the
\* program follows an exit (no session is spawned, wg.Wait() and Save are
\* never reached).
C11_BindFailureFatal ==
    [][/\ exitCode = -1
       /\ last' = "bindfail" =>
            /\ pc = "svc" /\ pc' = "exit"
            /\ exitCode' = 1
            /\ ifc' = ifc
            /\ saved = 0 /\ saved' = 0
            /\ sess' = <<>> /\ wg' = 0
      ]_vars

\* the alias of a first service was added, the one of a later service failed
C11_Witness ==
    /\ last = "bindfail"
    /\ pc = "exit" /\ exitCode = 1
    /\ ifc # {}
    /\ saved = 0

\* C12: a failed Allocate is local to its service: the step that skips the
\* service adds no alias and spawns no session, the process keeps running,
\* and the loop goes on with the next service of the namespace if there is
\* one and with the next namespace or context (or the final wait) if not.
C12_AllocFailureLocal ==
    [][(pc = "svc" /\ svcLeft' = svcLeft - 1 /\ last' = "allocfail") =>
         /\ exitCode' = -1
         /\ ifc' = ifc /\ sess' = sess /\ wg' = wg
         /\ localIP' = 0
         /\ IF svcLeft' > 0
            THEN pc' = "svc" /\ ctxi' = ctxi /\ nsi' = nsi
            ELSE \/ pc' = "ns" /\ ctxi' = ctxi /\ nsi' = nsi + 1
                 \/ pc' = "ctx" /\ ctxi' = ctxi + 1 /\ ctxi' <= NumContexts
                 \/ pc' = "wait" /\ ctxi = NumContexts
      ]_vars

\* Allocate failed for a service and the next one of the namespace is due
C12_Witness ==
    /\ pc = "svc" /\ last = "allocfail"
    /\ svcLeft > 0
    /\ exitCode = -1

\* Allocate failed for the last service of a context that is not the last
C12_WitnessNextContext ==
    /\ pc = "ctx" /\ last = "allocfail"
    /\ ctxi <= NumContexts

\* C15: while the process runs the allocation table only grows: no step of
\* the run, by the orchestrator (an Allocate that succeeds or fails, a
\* skipped service) or by a session (tunnel end, the listing and the removal
\* of deleteIP, Wg.Done), takes an address out of it; and the address handed
\* to a service was not in the table before, so an address whose alias was
\* released is not handed out again.
C15_TableOnlyGrows ==
    [][exitCode' = -1 =>
         /\ allocated \subseteq allocated'
         /\ (localIP' # 0 /\ localIP' # localIP) =>
               /\ localIP' \notin allocated
               /\ localIP' \in allocated'
         /\ (ifc \ ifc') \subseteq allocated'
      ]_vars

\* the session of a first service has ended and its address 1 is released
\* and still claimed; the next service was handed address 2
C15_Witness ==
    /\ pc = "ports" /\ localIP = 2
    /\ allocated = {1, 2}
    /\ ifc = {2}
    /\ \E i \in 1..Len(sess) : sess[i].st = "done"

\* C14: (one caller) a candidate is in the table when its probe starts and
\* from then on; an address found live stays in the table; and over all the
\* Allocate calls of a run no address is probed twice, so an address found
\* live by one call is not tried by a later one.
C14_ClaimBeforeProbeOnce ==
    /\ \A c \in Callers : call[c].pc = "probe" => call[c].ip \in allocated
    /\ \A h \in Hosts : probes[h] <= 1
    /\ \A h \in Hosts : probes[h] = 1 => h \in allocated
    /\ \A c \in Callers : \A i \in 1..Len(call[c].log) :
         /\ call[c].log[i].ip \in allocated
         /\ call[c].log[i].ip \notin call[c].before

\* the first call on the range 1-2 found host 1 live, probed host 2 and
\* returned it; the second call on that range tried neither address again
\* and ends with the exhaustion error
C14_Witness ==
    /\ ncalls = 1 /\ returned = <<2>>
    /\ call["main"].pc = "done"
    /\ call["main"].lo = 1 /\ call["main"].hi = 2
    /\ call["main"].before = {1, 2}
    /\ call["main"].log = <<>>
    /\ call["main"].ret.err = "exhausted"
    /\ probes = [h \in Hosts |-> IF h \in {1, 2} THEN 1 ELSE 0]

\* the sessions between the listing and the end of deleteIP
InDeleteIP == {i \in 1..Len(sess) : sess[i].st = "listed"}

\* C18: the listing and the delete of a teardown are atomic with respect to
\* every other teardown: at most one session is between its listing and the
\* end of deleteIP, it holds the mutex, and only the holder removes an alias;
\* and whatever the orchestrator adds meanwhile, whether the session's own
\* address is on the interface does not change from its listing to its
\* delete.
C18_TeardownsSerialized ==
    [][/\ \A i \in InDeleteIP : mu = i
       /\ \A i \in InDeleteIP :
            (i <= Len(sess') /\ sess'[i].st = "listed") =>
                (sess[i].ip \in ifc <=> sess[i].ip \in ifc')
       /\ (ifc' \ ifc) \cap {sess[i].ip : i \in InDeleteIP} = {}
       /\ ~(ifc' \subseteq ifc) => pc = "svc"
       /\ (ifc' # ifc /\ ifc' \subseteq ifc) =>
            \E i \in InDeleteIP : mu = i /\ mu' = 0 /\ ifc' = ifc \ {sess[i].ip}
      ]_vars

\* a session is between its listing and its delete, and the orchestrator
\* has added the alias of a later service, which it is now forwarding
C18_Witness ==
    \E i \in InDeleteIP :
        /\ sess[i].hit /\ mu = i
        /\ pc = "ports"
        /\ localIP # sess[i].ip
        /\ localIP \in ifc /\ sess[i].ip \in ifc

\* the statement as made: while a session is between its listing and its
\* delete no other unit changes the interface, the orchestrator included
C18_ListDeleteAtomic ==
    [][(mu # 0 /\ mu' = mu) => ifc' = ifc]_vars

\* C19: no step removes the alias of an address from the interface while a
\* session that uses the address is still tunneling.
C19_NoPrematureRelease ==
    [][\A a \in ifc \ ifc' : \A i \in Tunneling : sess[i].ip # a]_vars

\* the alias of a two-port service is gone while one of its tunnels runs
C19_TunnelWithoutAlias ==
    /\ Len(sess) = 2
    /\ sess[2].st = "tunnel"
    /\ sess[2].ip \notin ifc
    /\ sess[1] = EndedSession

\* C20: when Save is called the interface carries none of the aliases the
\* run added.
C20_NoLeakedBindings ==
    saved > 0 => ifc = {}

\* Save was called in a run that spawned no session and left an alias
C20_AliasLeftWithoutSession ==
    /\ saved = 1 /\ pc = "done"
    /\ sess = <<>>
    /\ ifc # {}

ProbeFailed(e) ==
    IF build = "goping" THEN e.stats.PacketsRecv = 0 ELSE e.out = "empty"

\* C16: a candidate whose probe failed or yielded no usable result is the
\* address the call returns: the probe is the last one of the call, and the
\* call ends at once with that candidate and no error.
C16_ProbeErrorMeansFree ==
    \A c \in Callers : \A i \in 1..Len(call[c].log) :
        ProbeFailed(call[c].log[i]) =>
            /\ i = Len(call[c].log)
            /\ call[c].pc = "done"
            /\ call[c].ret = [ip |-> call[c].log[i].ip, err |-> "nil"]

\* the ping command printed nothing for either address of the range 1-2 and
\* the call ends with the exhaustion error
C16_FailedProbesExhaust ==
    /\ build = "execping"
    /\ call["main"].pc = "done"
    /\ call["main"].lo = 1 /\ call["main"].hi = 2
    /\ Len(call["main"].log) = 2
    /\ call["main"].log[1].out = "empty" /\ call["main"].log[2].out = "empty"
    /\ call["main"].ret.err = "exhausted"

\* a caller that has entered its candidate in the table and not given it up
Claimed(c) ==
    \/ call[c].pc = "probe"
    \/ call[c].pc = "done" /\ call[c].ret.err = "nil"

\* C13: with Allocate called concurrently, check and claim are one atomic
\* step: a caller about to claim a candidate finds it still unclaimed, no
\* two callers hold the same candidate as claimed or returned, and no
\* address is returned twice.
C13_ConcurrentClaimsDistinct ==
    /\ \A c \in Callers : call[c].pc = "claim" => call[c].ip \notin allocated
    /\ \A c \in Callers : Claimed(c) => call[c].ip \in allocated
    /\ \A c, d \in Callers :
         (c # d /\ Claimed(c) /\ Claimed(d)) => call[c].ip # call[d].ip
    /\ \A c \in Callers :
         (call[c].pc = "done" /\ call[c].ret.err = "nil") =>
            \A i \in 1..Len(returned) : returned[i] # call[c].ret.ip
    /\ \A i, j \in 1..Len(returned) : i # j => returned[i] # returned[j]

\* two callers are returning the same address
C13_SameAddressReturned ==
    /\ exitCode = -1
    /\ call["main"].pc = "done" /\ call["other"].pc = "done"
    /\ call["main"].ret = [ip |-> 1, err |-> "nil"]
    /\ call["other"].ret = [ip |-> 1, err |-> "nil"]

(* ------------- properties of the port resolution (SpecResolve) -------- *)

\* the port declarations of the containers, in container order and, within
\* a container, in declaration order
RECURSIVE Declarations(_)
Declarations(containers) ==
    IF containers = <<>> THEN <<>>
    ELSE Head(containers) \o Declarations(Tail(containers))

\* C9: a numeric target is used unchanged; any other target is a name and is
\* replaced by the container port of the first declaration with that name
\* among the containers of the first pod; a name no declaration has is
\* passed through unchanged. So "h" on a pod declaring h -> 8080 gives
\* "8080", and the numeric target 9090 gives "9090".
C9_TargetPortResolution ==
    pc = "resolved" =>
        LET target == TargetPortString(port)
            decls  == Declarations(pods.containers)
            named  == {i \in 1..Len(decls) : decls[i].Name = target}
            first  == CHOOSE i \in named : \A j \in named : i <= j
        IN  /\ pfo.set
            /\ AtoiOk(target) => pfo.PodPort = target
            /\ (~AtoiOk(target) /\ named # {}) =>
                   pfo.PodPort = Itoa(decls[first].ContainerPort)
            /\ (~AtoiOk(target) /\ named = {}) => pfo.PodPort = target
            /\ (port = StrPort(<<"h">>) /\ Len(pods.containers) = 1) =>
                   pfo.PodPort = <<"8", "0", "8", "0">>
            /\ port = IntPort(9090) => pfo.PodPort = <<"9", "0", "9", "0">>

\* the name "h" is declared twice (81, then 82) in the second container: 81
C9_Witness ==
    /\ pc = "resolved"
    /\ port = StrPort(<<"h">>)
    /\ Len(pods.containers) = 2
    /\ pfo = [PodPort |-> <<"8", "1">>, set |-> TRUE]

====
